---- MODULE Spec2Model ----
(***************************************************************************)
(* Model of the backend chat integration of SLAPxInterView:                *)
(*   backend/src/config/stream.js        (provider wrappers)               *)
(*   backend/src/controllers/chat.controller.js   (token endpoint)         *)
(*   backend/src/server.js               (Express app)                     *)
(*   frontend/src/main.jsx, App.jsx      (bootstrap and routing)           *)
(* The Stream SDK is the environment: every provider call either succeeds  *)
(* or fails with one of a few error kinds, chosen nondeterministically.    *)
(***************************************************************************)
EXTENDS Integers, Sequences, FiniteSets, TLC

\* ---------------------------------------------------------------- bounds
NumProcs == 2          \* concurrent invocations (async call frames)
MaxChannels == 3       \* channels that exist at the provider
MaxNumId == 12         \* largest numeric identity handed to toString

Procs == 1..NumProcs

\* ------------------------------------------------------- JavaScript values
Str(s) == [t |-> "str", s |-> s]
Num(n) == [t |-> "num", n |-> n]
Null == [t |-> "null"]
Undefined == [t |-> "undefined"]
Err(kind) == [t |-> "error", kind |-> kind]

Digits == <<"0", "1", "2", "3", "4", "5", "6", "7", "8", "9">>

RECURSIVE NumToStr(_)
NumToStr(n) ==
  IF n < 10 THEN Digits[n + 1] ELSE NumToStr(n \div 10) \o Digits[(n % 10) + 1]

\* userId.toString(): defined for strings and numbers, a TypeError on
\* null and undefined.
CanStringify(v) == v.t \in {"str", "num"}
toString(v) == IF v.t = "str" THEN v.s ELSE NumToStr(v.n)

\* ----------------------------------------------------------------- inputs
StrIds == {"user_123", "u2"}
UserIds == {Str(s) : s \in StrIds} \cup {Num(MaxNumId)} \cup {Null, Undefined}
MemberIds == {Str("user_123"), Str("u2")}
UserDatas == {[id |-> "user_123", name |-> "Ann"], Null}
DeleteIds == {Str("user_123")}
\* req.auth is absent, req.auth() throws, or req.auth() returns {userId}
Requests == {[auth |-> "missing", userId |-> Undefined], [auth |-> "throws", userId |-> Undefined]}
              \cup {[auth |-> "ok", userId |-> u] : u \in UserIds}

\* outcomes of one provider call
ErrorKinds == {"network"}
Outcomes == {"ok"} \cup ErrorKinds

AllChannels == [i \in 1..MaxChannels |-> i]
ChannelIds == 1..MaxChannels
\* the flag settings the provider starts with: no channel discoverable, all
\* of them, or all but one
DiscoverableInits ==
  {S \in SUBSET ChannelIds : S = {} \/ Cardinality(ChannelIds \ S) <= 1}

\* the token the provider signs for a user id string
ProviderToken(s) == Str("jwt." \o s)

VARIABLES
  op,          \* op[p]: the exported function frame p runs ("none" before)
  pc,          \* pc[p]: where frame p stands
  arg,         \* arg[p]: the argument the frame was called with
  token,       \* token[p]: local `token` of getStreamToken
  publicChannels, \* publicChannels[p]: local of addUserToPublicChannels
  idx,         \* idx[p]: position of the for-of iterator (channels done)
  ret,         \* ret[p]: how the call ended, as its caller sees it
  res,         \* res[p]: the responses sent on the frame's `res`
  calls,       \* calls[p]: the provider calls the frame issued, in order
  logs,        \* logs[p]: console output of the frame
  users,       \* provider side: user directory
  members,     \* provider side: set of <<channel, user>>
  discoverable, \* provider side: channels flagged discoverable
  streamClient, \* stream.js: the module-level `streamClient` binding
  instances,   \* the StreamChat client instances constructed so far
  app,         \* server.js: the layers registered on the Express app
  hreq,        \* hreq[p]: the HTTP request the app is handling in frame p
  hpos,        \* hpos[p]: number of layers of `app` the request has passed
  hran,        \* hran[p]: names of the layers that ran for the request
  hres,        \* hres[p]: the responses sent for the request
  nodeEnv,     \* server.js: ENV.NODE_ENV
  startPc,     \* server.js: where startServer() stands
  dbCall,      \* the connectDB() call: none, pending, ok or fail
  startLog,    \* what startServer did so far, in order
  listening,   \* whether the HTTP port is bound
  exitCode,    \* the code the process exited with, Null while it runs
  env,         \* main.jsx: import.meta.env.VITE_CLERK_PUBLISHABLE_KEY
  rootEl,      \* whether the document has an element with id "root"
  bootPc,      \* main.jsx: the statement the module body stands at
  bootLog,     \* the bootstrap steps performed so far, in order
  bootError,   \* the error the module body threw, if any
  signedIn,    \* Clerk: whether there is a session
  location,    \* the router's current URL
  entered,     \* the URL of the last navigation the user made
  page,        \* the page component on screen
  pending,     \* target of a rendered <Navigate>, <<>> when none
  hops         \* redirects followed since the last navigation

frameVars == <<op, pc, arg, token, publicChannels, idx, ret, res, calls, logs>>
providerVars == <<users, members, discoverable>>
moduleVars == <<streamClient, instances>>
startVars == <<nodeEnv, startPc, dbCall, startLog, listening, exitCode>>
serverVars == <<app, hreq, hpos, hran, hres,
                nodeEnv, startPc, dbCall, startLog, listening, exitCode>>
frontVars == <<env, rootEl, bootPc, bootLog, bootError, signedIn, location,
               entered, page, pending, hops>>

vars == <<op, pc, arg, token, publicChannels, idx, ret, res, calls, logs,
          users, members, discoverable, streamClient, instances,
          app, hreq, hpos, hran, hres,
          nodeEnv, startPc, dbCall, startLog, listening, exitCode,
          env, rootEl, bootPc, bootLog, bootError, signedIn, location,
          entered, page, pending, hops>>

TypeError == Err("TypeError")

NoRet == [state |-> "none", value |-> Undefined]
Fulfilled(v) == [state |-> "fulfilled", value |-> v]
Rejected(e) == [state |-> "rejected", value |-> e]
Returned(v) == [state |-> "returned", value |-> v]
Thrown(e) == [state |-> "thrown", value |-> e]

\* a provider call as a mock records it; every call in stream.js is made
\* through the module-level streamClient (or a channel it returned)
Call(fn, a, status, value) ==
  [fn |-> fn, arg |-> a, status |-> status, value |-> value, client |-> streamClient]
LogLine(level, msg, data) == [level |-> level, msg |-> msg, data |-> data]
Response(status, body) == [status |-> status, body |-> body]

\* StreamChat.getInstance(key, secret): the SDK's singleton accessor hands
\* back the existing instance, constructing one only when there is none
getInstance(existing) ==
  IF existing = {} THEN [client |-> 1, instances |-> {1}]
  ELSE [client |-> CHOOSE c \in existing : TRUE, instances |-> existing]

\* no call frame has started
FramesIdle ==
  /\ op = [p \in Procs |-> "none"]
  /\ pc = [p \in Procs |-> "idle"]
  /\ arg = [p \in Procs |-> Undefined]
  /\ token = [p \in Procs |-> Undefined]
  /\ publicChannels = [p \in Procs |-> <<>>]
  /\ idx = [p \in Procs |-> 0]
  /\ ret = [p \in Procs |-> NoRet]
  /\ res = [p \in Procs |-> <<>>]
  /\ calls = [p \in Procs |-> <<>>]
  /\ logs = [p \in Procs |-> <<>>]

\* stream.js line 4 has run: const streamClient = new StreamChat.getInstance(..)
ModuleLoaded ==
  /\ streamClient = getInstance({}).client
  /\ instances = getInstance({}).instances

NoRequest == [method |-> "none", path |-> <<>>, auth |-> "none"]

\* server.js has not been loaded: no app, no request, no startServer()
ServerIdle ==
  /\ app = <<>>
  /\ hreq = [p \in Procs |-> NoRequest]
  /\ hpos = [p \in Procs |-> 0]
  /\ hran = [p \in Procs |-> <<>>]
  /\ hres = [p \in Procs |-> <<>>]
  /\ nodeEnv = Undefined
  /\ startPc = "unloaded"
  /\ dbCall = "none"
  /\ startLog = <<>>
  /\ listening = FALSE
  /\ exitCode = Null

\* the frontend bundle has not been loaded
FrontIdle ==
  /\ env = Undefined
  /\ rootEl = FALSE
  /\ bootPc = "unloaded"
  /\ bootLog = <<>>
  /\ bootError = Undefined
  /\ signedIn = FALSE
  /\ location = <<>>
  /\ entered = <<>>
  /\ page = "none"
  /\ pending = <<>>
  /\ hops = 0

Init ==
  /\ FramesIdle
  /\ ModuleLoaded
  /\ users = {}
  /\ members = {}
  /\ discoverable \in DiscoverableInits
  /\ ServerIdle
  /\ FrontIdle

\* ------------------------------------------------- stream.js: createToken
\* variant: the call goes through a client constructed for it
createToken_NewClient(s, outcome) ==
  IF outcome = "ok"
  THEN [Call("createToken", s, "ok", ProviderToken(s)) EXCEPT !.client = @ + 1]
  ELSE [Call("createToken", s, "fail", Err(outcome)) EXCEPT !.client = @ + 1]

\* streamClient.createToken(s) with the given outcome: the call as the
\* provider mock records it.
createToken(s, outcome) ==
  IF outcome = "ok"
  THEN Call("createToken", s, "ok", ProviderToken(s))
  ELSE Call("createToken", s, "fail", Err(outcome))

\* variant: hands back the id string it built instead of the provider's token
genrateStreamToken_ReturnsId(userId, outcome) ==
  IF ~CanStringify(userId)
  THEN [ret |-> Returned(Null), calls |-> <<>>,
        logs |-> <<LogLine("error", "Error generating Stream token:", TypeError)>>]
  ELSE LET c == createToken(toString(userId), outcome) IN
       IF c.status = "ok"
       THEN [ret |-> Returned(Str(c.arg)), calls |-> <<c>>, logs |-> <<>>]
       ELSE [ret |-> Returned(Null), calls |-> <<c>>,
             logs |-> <<LogLine("error", "Error generating Stream token:", c.value)>>]

\* variant: toString() outside the try block
genrateStreamToken_NoCatch(userId, outcome) ==
  IF ~CanStringify(userId)
  THEN [ret |-> Thrown(TypeError), calls |-> <<>>, logs |-> <<>>]
  ELSE LET c == createToken(toString(userId), outcome) IN
       IF c.status = "ok"
       THEN [ret |-> Returned(c.value), calls |-> <<c>>, logs |-> <<>>]
       ELSE [ret |-> Returned(Null), calls |-> <<c>>,
             logs |-> <<LogLine("error", "Error generating Stream token:", c.value)>>]

\* variant: a token is only signed for an identity in the user directory
genrateStreamToken_KnownOnly(userId, outcome) ==
  IF ~CanStringify(userId) \/ toString(userId) \notin users
  THEN [ret |-> Returned(Null), calls |-> <<>>,
        logs |-> <<LogLine("error", "Error generating Stream token:", TypeError)>>]
  ELSE LET c == createToken(toString(userId), outcome) IN
       IF c.status = "ok"
       THEN [ret |-> Returned(c.value), calls |-> <<c>>, logs |-> <<>>]
       ELSE [ret |-> Returned(Null), calls |-> <<c>>,
             logs |-> <<LogLine("error", "Error generating Stream token:", c.value)>>]

\* genrateStreamToken(userId): synchronous; the whole body is in try/catch.
\* ret: how it completes; calls: provider calls made; logs: console.error.
genrateStreamToken(userId, outcome) ==
  IF ~CanStringify(userId)
  THEN [ret |-> Returned(Null), calls |-> <<>>,
        logs |-> <<LogLine("error", "Error generating Stream token:", TypeError)>>]
  ELSE LET c == createToken(toString(userId), outcome) IN
       IF c.status = "ok"
       THEN [ret |-> Returned(c.value), calls |-> <<c>>, logs |-> <<>>]
       ELSE [ret |-> Returned(Null), calls |-> <<c>>,
             logs |-> <<LogLine("error", "Error generating Stream token:", c.value)>>]

\* a direct call of genrateStreamToken (it is exported)
GenrateStreamTokenCall(p, userId, outcome) ==
  /\ op[p] = "none"
  /\ LET g == genrateStreamToken(userId, outcome) IN
       /\ op' = [op EXCEPT ![p] = "genrateStreamToken"]
       /\ pc' = [pc EXCEPT ![p] = "done"]
       /\ arg' = [arg EXCEPT ![p] = userId]
       /\ ret' = [ret EXCEPT ![p] = g.ret]
       /\ calls' = [calls EXCEPT ![p] = g.calls]
       /\ logs' = [logs EXCEPT ![p] = g.logs]
  /\ UNCHANGED <<token, publicChannels, idx, res, users, members, discoverable>>
  /\ UNCHANGED <<moduleVars, serverVars, frontVars>>

\* --------------------------------------- chat.controller.js: getStreamToken
\* variant: a request without req.auth yields an undefined userId
AuthThrows_OnlyThrowing(req) == req.auth = "throws"

\* req.auth().userId raises when req.auth is absent or throws
AuthThrows(req) == req.auth # "ok"

\* catch(error) { res.status(500).json({message: ...}) }
ErrorResponse == Response(500, [message |-> "Error generating stream token"])

\* return res.status(200).json({token})
TokenResponse(tok) == Response(200, [token |-> tok])

\* variant: the handler also registers the caller in the user directory
GetStreamToken_Upserts(p, req, outcome) ==
  /\ op[p] = "none"
  /\ op' = [op EXCEPT ![p] = "getStreamToken"]
  /\ arg' = [arg EXCEPT ![p] = req]
  /\ IF AuthThrows(req)
     THEN /\ res' = [res EXCEPT ![p] = Append(@, ErrorResponse)]
          /\ pc' = [pc EXCEPT ![p] = "done"]
          /\ ret' = [ret EXCEPT ![p] = Fulfilled(Undefined)]
          /\ UNCHANGED <<token, calls, logs, users>>
     ELSE LET g == genrateStreamToken(req.userId, outcome) IN
          /\ calls' = [calls EXCEPT ![p] = g.calls]
          /\ logs' = [logs EXCEPT ![p] = g.logs]
          /\ users' = IF CanStringify(req.userId)
                      THEN users \cup {toString(req.userId)} ELSE users
          /\ token' = [token EXCEPT ![p] = g.ret.value]
          /\ pc' = [pc EXCEPT ![p] = "await_token"]
          /\ ret' = [ret EXCEPT ![p] = [state |-> "pending", value |-> Undefined]]
          /\ UNCHANGED res
  /\ UNCHANGED <<publicChannels, idx, members, discoverable>>
  /\ UNCHANGED <<moduleVars, serverVars, frontVars>>

\* the synchronous part of getStreamToken: the try block up to the await,
\* or the catch block when the try block raised before it
GetStreamToken(p, req, outcome) ==
  /\ op[p] = "none"
  /\ op' = [op EXCEPT ![p] = "getStreamToken"]
  /\ arg' = [arg EXCEPT ![p] = req]
  /\ IF AuthThrows(req)
     THEN /\ res' = [res EXCEPT ![p] = Append(@, ErrorResponse)]
          /\ pc' = [pc EXCEPT ![p] = "done"]
          /\ ret' = [ret EXCEPT ![p] = Fulfilled(Undefined)]
          /\ UNCHANGED <<token, calls, logs>>
     ELSE LET g == genrateStreamToken(req.userId, outcome) IN
          /\ calls' = [calls EXCEPT ![p] = g.calls]
          /\ logs' = [logs EXCEPT ![p] = g.logs]
          /\ IF g.ret.state = "thrown"
             THEN /\ res' = [res EXCEPT ![p] = Append(@, ErrorResponse)]
                  /\ pc' = [pc EXCEPT ![p] = "done"]
                  /\ ret' = [ret EXCEPT ![p] = Fulfilled(Undefined)]
                  /\ UNCHANGED token
             ELSE /\ token' = [token EXCEPT ![p] = g.ret.value]
                  /\ pc' = [pc EXCEPT ![p] = "await_token"]
                  /\ ret' = [ret EXCEPT ![p] = [state |-> "pending", value |-> Undefined]]
                  /\ UNCHANGED res
  /\ UNCHANGED <<publicChannels, idx, users, members, discoverable>>
  /\ UNCHANGED <<moduleVars, serverVars, frontVars>>

\* variant: `token` is a module-level variable shared by all requests
GetStreamTokenResume_SharedToken(p) ==
  /\ op[p] = "getStreamToken"
  /\ pc[p] = "await_token"
  /\ \E q \in Procs :
       /\ op[q] = "getStreamToken"
       /\ token[q] # Undefined
       /\ res' = [res EXCEPT ![p] = Append(@, TokenResponse(token[q]))]
  /\ pc' = [pc EXCEPT ![p] = "done"]
  /\ ret' = [ret EXCEPT ![p] = Fulfilled(Undefined)]
  /\ UNCHANGED <<op, arg, token, publicChannels, idx, calls, logs, users, members, discoverable>>
  /\ UNCHANGED <<moduleVars, serverVars, frontVars>>

\* variant: the success response is sent without `return`, then the 500
GetStreamTokenResume_Double(p) ==
  /\ op[p] = "getStreamToken"
  /\ pc[p] = "await_token"
  /\ res' = [res EXCEPT ![p] = @ \o <<TokenResponse(token[p]), ErrorResponse>>]
  /\ pc' = [pc EXCEPT ![p] = "done"]
  /\ ret' = [ret EXCEPT ![p] = Fulfilled(Undefined)]
  /\ UNCHANGED <<op, arg, token, publicChannels, idx, calls, logs, users, members, discoverable>>
  /\ UNCHANGED <<moduleVars, serverVars, frontVars>>

\* after the await: return res.status(200).json({token})
GetStreamTokenResume(p) ==
  /\ op[p] = "getStreamToken"
  /\ pc[p] = "await_token"
  /\ res' = [res EXCEPT ![p] = Append(@, TokenResponse(token[p]))]
  /\ pc' = [pc EXCEPT ![p] = "done"]
  /\ ret' = [ret EXCEPT ![p] = Fulfilled(Undefined)]
  /\ UNCHANGED <<op, arg, token, publicChannels, idx, calls, logs, users, members, discoverable>>
  /\ UNCHANGED <<moduleVars, serverVars, frontVars>>

\* ------------------------------------------------ stream.js: provider calls
\* a call that has been issued and whose promise has not settled
Issue(fn, a) == Call(fn, a, "pending", Undefined)

\* the promise of the awaited call (the last one issued) settles
Settle(cs, outcome, value) ==
  [cs EXCEPT ![Len(cs)] = [@ EXCEPT !.status = IF outcome = "ok" THEN "ok" ELSE "fail",
                                     !.value = IF outcome = "ok" THEN value ELSE Err(outcome)]]

\* ----------------------------------------------- stream.js: upsertStreamUser
\* try { await streamClient.upsertUser(userData)
UpsertStreamUser(p, userData) ==
  /\ op[p] = "none"
  /\ op' = [op EXCEPT ![p] = "upsertStreamUser"]
  /\ arg' = [arg EXCEPT ![p] = userData]
  /\ calls' = [calls EXCEPT ![p] = <<Issue("upsertUser", userData)>>]
  /\ pc' = [pc EXCEPT ![p] = "await_upsertUser"]
  /\ ret' = [ret EXCEPT ![p] = [state |-> "pending", value |-> Undefined]]
  /\ UNCHANGED <<token, publicChannels, idx, res, logs, users, members, discoverable>>
  /\ UNCHANGED <<moduleVars, serverVars, frontVars>>

\* variant: the catch block logs and rethrows
upsertStreamUserRest_Rethrow(userData, outcome) ==
  IF outcome # "ok"
  THEN [ret |-> Rejected(Err(outcome)),
        logs |-> <<LogLine("error", "Error upserting Stream user:", Err(outcome))>>]
  ELSE IF userData = Null
  THEN [ret |-> Rejected(TypeError),
        logs |-> <<LogLine("error", "Error upserting Stream user:", TypeError)>>]
  ELSE [ret |-> Fulfilled(userData),
        logs |-> <<LogLine("log", "Stream user upserted:", Str(userData.name))>>]

\* what the rest of upsertStreamUser does once the awaited call settled:
\* console.log(userData.name); return userData  /  catch: console.error
upsertStreamUserRest(userData, outcome) ==
  IF outcome # "ok"
  THEN [ret |-> Fulfilled(Undefined),
        logs |-> <<LogLine("error", "Error upserting Stream user:", Err(outcome))>>]
  ELSE IF userData = Null
  THEN \* userData.name raises inside the try
       [ret |-> Fulfilled(Undefined),
        logs |-> <<LogLine("error", "Error upserting Stream user:", TypeError)>>]
  ELSE [ret |-> Fulfilled(userData),
        logs |-> <<LogLine("log", "Stream user upserted:", Str(userData.name))>>]

\* variant: a failed upsertUser is tried once more
UpsertStreamUserResume_Retry(p, outcome) ==
  /\ op[p] = "upsertStreamUser"
  /\ pc[p] = "await_upsertUser"
  /\ users' = IF outcome = "ok" /\ arg[p] # Null THEN users \cup {arg[p].id} ELSE users
  /\ IF outcome # "ok" /\ Len(calls[p]) < 2
     THEN /\ calls' = [calls EXCEPT ![p] = Append(Settle(@, outcome, Undefined), Issue("upsertUser", arg[p]))]
          /\ UNCHANGED <<ret, logs, pc>>
     ELSE /\ calls' = [calls EXCEPT ![p] = Settle(@, outcome, Undefined)]
          /\ LET r == upsertStreamUserRest(arg[p], outcome) IN
               /\ ret' = [ret EXCEPT ![p] = r.ret]
               /\ logs' = [logs EXCEPT ![p] = @ \o r.logs]
          /\ pc' = [pc EXCEPT ![p] = "done"]
  /\ UNCHANGED <<op, arg, token, publicChannels, idx, res, members, discoverable>>
  /\ UNCHANGED <<moduleVars, serverVars, frontVars>>

UpsertStreamUserResume(p, outcome) ==
  /\ op[p] = "upsertStreamUser"
  /\ pc[p] = "await_upsertUser"
  /\ calls' = [calls EXCEPT ![p] = Settle(@, outcome, Undefined)]
  /\ users' = IF outcome = "ok" /\ arg[p] # Null THEN users \cup {arg[p].id} ELSE users
  /\ LET r == upsertStreamUserRest(arg[p], outcome) IN
       /\ ret' = [ret EXCEPT ![p] = r.ret]
       /\ logs' = [logs EXCEPT ![p] = @ \o r.logs]
  /\ pc' = [pc EXCEPT ![p] = "done"]
  /\ UNCHANGED <<op, arg, token, publicChannels, idx, res, members, discoverable>>
  /\ UNCHANGED <<moduleVars, serverVars, frontVars>>

\* ----------------------------------------------- stream.js: deleteStreamUser
DeleteStreamUser(p, userId) ==
  /\ op[p] = "none"
  /\ op' = [op EXCEPT ![p] = "deleteStreamUser"]
  /\ arg' = [arg EXCEPT ![p] = userId]
  /\ calls' = [calls EXCEPT ![p] = <<Issue("deleteUser", userId)>>]
  /\ pc' = [pc EXCEPT ![p] = "await_deleteUser"]
  /\ ret' = [ret EXCEPT ![p] = [state |-> "pending", value |-> Undefined]]
  /\ UNCHANGED <<token, publicChannels, idx, res, logs, users, members, discoverable>>
  /\ UNCHANGED <<moduleVars, serverVars, frontVars>>

deleteStreamUserRest(userId, outcome) ==
  IF outcome # "ok"
  THEN [ret |-> Fulfilled(Undefined),
        logs |-> <<LogLine("error", "Error deleting Stream user:", Err(outcome))>>]
  ELSE [ret |-> Fulfilled(Undefined),
        logs |-> <<LogLine("log", "Stream user deleted:", userId)>>]

DeleteStreamUserResume(p, outcome) ==
  /\ op[p] = "deleteStreamUser"
  /\ pc[p] = "await_deleteUser"
  /\ calls' = [calls EXCEPT ![p] = Settle(@, outcome, Undefined)]
  /\ users' = IF outcome = "ok" THEN users \ {arg[p].s} ELSE users
  /\ LET r == deleteStreamUserRest(arg[p], outcome) IN
       /\ ret' = [ret EXCEPT ![p] = r.ret]
       /\ logs' = [logs EXCEPT ![p] = @ \o r.logs]
  /\ pc' = [pc EXCEPT ![p] = "done"]
  /\ UNCHANGED <<op, arg, token, publicChannels, idx, res, members, discoverable>>
  /\ UNCHANGED <<moduleVars, serverVars, frontVars>>

\* ---------------------------------------- stream.js: addUserToPublicChannels
\* the provider's answer to queryChannels({discoverable: true})
RECURSIVE FilterSeq(_, _)
FilterSeq(s, keep) ==
  IF s = <<>> THEN <<>>
  ELSE (IF Head(s) \in keep THEN <<Head(s)>> ELSE <<>>) \o FilterSeq(Tail(s), keep)

\* variant: the query is sent without its filter
queryChannels_NoFilter(flagged) == AllChannels

queryChannels(flagged) == FilterSeq(AllChannels, flagged)

\* const publicChannels = await streamClient.queryChannels({discoverable: true})
AddUserToPublicChannels(p, newUserId) ==
  /\ op[p] = "none"
  /\ op' = [op EXCEPT ![p] = "addUserToPublicChannels"]
  /\ arg' = [arg EXCEPT ![p] = newUserId]
  /\ calls' = [calls EXCEPT ![p] = <<Issue("queryChannels", [discoverable |-> TRUE])>>]
  /\ pc' = [pc EXCEPT ![p] = "await_queryChannels"]
  /\ ret' = [ret EXCEPT ![p] = [state |-> "pending", value |-> Undefined]]
  /\ UNCHANGED <<token, publicChannels, idx, res, logs, users, members, discoverable>>
  /\ UNCHANGED <<moduleVars, serverVars, frontVars>>

\* variant: walks the list from its end
forOfIssue_Reversed(chans, i, newUserId) ==
  IF i < Len(chans)
  THEN <<Issue("addMembers", [channel |-> chans[Len(chans) - i], members |-> <<newUserId>>])>>
  ELSE <<>>

\* variant: issues the calls for all remaining channels without awaiting
forOfIssue_All(chans, i, newUserId) ==
  [k \in 1..(Len(chans) - i) |->
     Issue("addMembers", [channel |-> chans[i + k], members |-> <<newUserId>>])]

\* variant: the loop ends at the first channel the user already belongs to
forOfIssue_StopAtMember(chans, i, newUserId) ==
  IF i < Len(chans) /\ <<chans[i + 1], newUserId>> \notin members
  THEN <<Issue("addMembers", [channel |-> chans[i + 1], members |-> <<newUserId>>])>>
  ELSE <<>>

\* variant: the loop ends one channel before the end of the list
forOfIssue_SkipLast(chans, i, newUserId) ==
  IF i < Len(chans) - 1
  THEN <<Issue("addMembers", [channel |-> chans[i + 1], members |-> <<newUserId>>])>>
  ELSE <<>>

\* variant: the loop tests the channel's flag again and ends when it is off
forOfIssue_RecheckFlag(chans, i, newUserId) ==
  IF i < Len(chans) /\ chans[i + 1] \in discoverable
  THEN <<Issue("addMembers", [channel |-> chans[i + 1], members |-> <<newUserId>>])>>
  ELSE <<>>

\* one turn of `for (const channel of publicChannels)` with i channels
\* done: the calls the loop head issues next (none when the list is used up)
forOfIssue(chans, i, newUserId) ==
  IF i < Len(chans)
  THEN <<Issue("addMembers", [channel |-> chans[i + 1], members |-> <<newUserId>>])>>
  ELSE <<>>

\* the function body from the loop head on: issue the next call and wait,
\* or fall off the end and resolve
LoopHead(p, chans, i, cs) ==
  LET next == forOfIssue(chans, i, arg[p]) IN
  /\ calls' = [calls EXCEPT ![p] = cs \o next]
  /\ idx' = [idx EXCEPT ![p] = i]
  /\ IF next # <<>>
     THEN /\ pc' = [pc EXCEPT ![p] = "await_addMembers"]
          /\ ret' = ret
     ELSE /\ pc' = [pc EXCEPT ![p] = "done"]
          /\ ret' = [ret EXCEPT ![p] = Fulfilled(Undefined)]

\* an awaited call of addUserToPublicChannels rejected: no try/catch, the
\* async function's promise rejects with the same error
enrollOnError(e) == Rejected(e)

QueryChannelsResume(p, outcome) ==
  /\ op[p] = "addUserToPublicChannels"
  /\ pc[p] = "await_queryChannels"
  /\ IF outcome = "ok"
     THEN LET chans == queryChannels(discoverable) IN
          /\ publicChannels' = [publicChannels EXCEPT ![p] = chans]
          /\ LoopHead(p, chans, 0, Settle(calls[p], outcome, chans))
     ELSE /\ calls' = [calls EXCEPT ![p] = Settle(@, outcome, Undefined)]
          /\ pc' = [pc EXCEPT ![p] = "done"]
          /\ ret' = [ret EXCEPT ![p] = enrollOnError(Err(outcome))]
          /\ UNCHANGED <<publicChannels, idx>>
  /\ UNCHANGED <<op, arg, token, res, logs, users, members, discoverable>>
  /\ UNCHANGED <<moduleVars, serverVars, frontVars>>

\* variant: a failed addMembers is caught inside the loop, which goes on
AddMembersResume_Continue(p, outcome) ==
  /\ op[p] = "addUserToPublicChannels"
  /\ pc[p] = "await_addMembers"
  /\ members' = IF outcome = "ok"
                THEN members \cup {<<publicChannels[p][idx[p] + 1], arg[p]>>}
                ELSE members
  /\ LoopHead(p, publicChannels[p], idx[p] + 1, Settle(calls[p], outcome, Undefined))
  /\ UNCHANGED <<op, arg, token, publicChannels, res, logs, users, discoverable>>
  /\ UNCHANGED <<moduleVars, serverVars, frontVars>>

\* variant: the loop position is a module-level counter all runs share
AddMembersResume_SharedIdx(p, outcome) ==
  /\ op[p] = "addUserToPublicChannels"
  /\ pc[p] = "await_addMembers"
  /\ IF outcome = "ok"
     THEN LET others == {idx[q] : q \in {r \in Procs : op[r] = "addUserToPublicChannels"}}
              top == CHOOSE i \in others : \A j \in others : j <= i
          IN /\ members' = members \cup {<<publicChannels[p][idx[p] + 1], arg[p]>>}
             /\ LoopHead(p, publicChannels[p], top + 1, Settle(calls[p], outcome, Undefined))
     ELSE /\ calls' = [calls EXCEPT ![p] = Settle(@, outcome, Undefined)]
          /\ pc' = [pc EXCEPT ![p] = "done"]
          /\ ret' = [ret EXCEPT ![p] = enrollOnError(Err(outcome))]
          /\ UNCHANGED <<members, idx>>
  /\ UNCHANGED <<op, arg, token, publicChannels, res, logs, users, discoverable>>
  /\ UNCHANGED <<moduleVars, serverVars, frontVars>>

\* await channel.addMembers([newUserId]) settles
AddMembersResume(p, outcome) ==
  /\ op[p] = "addUserToPublicChannels"
  /\ pc[p] = "await_addMembers"
  /\ IF outcome = "ok"
     THEN /\ members' = members \cup {<<publicChannels[p][idx[p] + 1], arg[p]>>}
          /\ LoopHead(p, publicChannels[p], idx[p] + 1, Settle(calls[p], outcome, Undefined))
     ELSE /\ calls' = [calls EXCEPT ![p] = Settle(@, outcome, Undefined)]
          /\ pc' = [pc EXCEPT ![p] = "done"]
          /\ ret' = [ret EXCEPT ![p] = enrollOnError(Err(outcome))]
          /\ UNCHANGED <<members, idx>>
  /\ UNCHANGED <<op, arg, token, publicChannels, res, logs, users, discoverable>>
  /\ UNCHANGED <<moduleVars, serverVars, frontVars>>

Next ==
  \/ \E p \in Procs, u \in UserIds, o \in Outcomes : GenrateStreamTokenCall(p, u, o)
  \/ \E p \in Procs, r \in Requests, o \in Outcomes : GetStreamToken(p, r, o)
  \/ \E p \in Procs : GetStreamTokenResume(p)
  \/ \E p \in Procs, d \in UserDatas : UpsertStreamUser(p, d)
  \/ \E p \in Procs, o \in Outcomes : UpsertStreamUserResume(p, o)
  \/ \E p \in Procs, u \in DeleteIds : DeleteStreamUser(p, u)
  \/ \E p \in Procs, o \in Outcomes : DeleteStreamUserResume(p, o)
  \/ \E p \in Procs, u \in MemberIds : AddUserToPublicChannels(p, u)
  \/ \E p \in Procs, o \in Outcomes : QueryChannelsResume(p, o)
  \/ \E p \in Procs, o \in Outcomes : AddMembersResume(p, o)

Spec == Init /\ [][Next]_vars

\* ------------------------------------- enrollment runs on their own
\* memberships the provider holds before any enrollment run
InitialMembers == {<<1, Str("user_123")>>, <<MaxChannels, Str("u2")>>}

InitEnroll ==
  /\ FramesIdle
  /\ ModuleLoaded
  /\ users = {}
  /\ members = InitialMembers
  /\ discoverable \in DiscoverableInits
  /\ ServerIdle
  /\ FrontIdle

NextEnroll ==
  \/ \E p \in Procs, u \in MemberIds : AddUserToPublicChannels(p, u)
  \/ \E p \in Procs, o \in Outcomes : QueryChannelsResume(p, o)
  \/ \E p \in Procs, o \in Outcomes : AddMembersResume(p, o)

SpecEnroll == InitEnroll /\ [][NextEnroll]_vars

\* a started run is called by someone, and the provider answers every call
\* it was sent: a pending promise does not stay pending forever
FairEnroll ==
  /\ SpecEnroll
  /\ \A p \in Procs :
       /\ WF_vars(QueryChannelsResume(p, "ok"))
       /\ WF_vars(AddMembersResume(p, "ok"))

\* ------------------------- enrollment while channel flags change
\* the channels whose discoverable flag is changed while runs are under way
Volatile == {MaxChannels - 1, MaxChannels}

\* the provider side: a channel is created discoverable or made
\* discoverable (b), or stops being discoverable (~b)
SetDiscoverable(c, b) ==
  /\ (c \in discoverable) # b
  /\ discoverable' = IF b THEN discoverable \cup {c} ELSE discoverable \ {c}
  /\ UNCHANGED <<frameVars, users, members>>
  /\ UNCHANGED <<moduleVars, serverVars, frontVars>>

InitSnapshot ==
  /\ FramesIdle
  /\ ModuleLoaded
  /\ users = {}
  /\ members = {}
  /\ discoverable = ChannelIds \ {MaxChannels}
  /\ ServerIdle
  /\ FrontIdle

NextSnapshot ==
  \/ \E p \in Procs, u \in MemberIds : AddUserToPublicChannels(p, u)
  \/ \E p \in Procs, o \in Outcomes : QueryChannelsResume(p, o)
  \/ \E p \in Procs, o \in Outcomes : AddMembersResume(p, o)
  \/ \E c \in Volatile, b \in BOOLEAN : SetDiscoverable(c, b)

SpecSnapshot == InitSnapshot /\ [][NextSnapshot]_vars

\* ------------------------------------------------- server.js: Express app
Layer(kind, method, path, name) ==
  [kind |-> kind, method |-> method, path |-> path, name |-> name]

\* backend/src/server.js, in registration order
ServerJs ==
  << Layer("use", "ALL", <<>>, "express.json"),
     Layer("use", "ALL", <<>>, "clerkMiddleware"),
     Layer("use", "ALL", <<"api", "inngest">>, "inngest.serve"),
     Layer("route", "GET", <<>>, "hello") >>

\* variant: the greeting route is registered ahead of clerkMiddleware
ServerJsChat_ClerkLate ==
  << Layer("use", "ALL", <<>>, "express.json"),
     Layer("route", "GET", <<>>, "hello"),
     Layer("use", "ALL", <<>>, "clerkMiddleware"),
     Layer("route", "GET", <<"debug-sentry">>, "debug-sentry"),
     Layer("use", "ALL", <<"api", "inngest">>, "inngest.serve"),
     Layer("use", "ALL", <<"api", "chat">>, "chatRoutes"),
     Layer("error", "ALL", <<>>, "Sentry.errorHandler") >>

\* the later server.js, with Sentry and the chat routes
ServerJsChat ==
  << Layer("use", "ALL", <<>>, "express.json"),
     Layer("use", "ALL", <<>>, "clerkMiddleware"),
     Layer("route", "GET", <<>>, "hello"),
     Layer("route", "GET", <<"debug-sentry">>, "debug-sentry"),
     Layer("use", "ALL", <<"api", "inngest">>, "inngest.serve"),
     Layer("use", "ALL", <<"api", "chat">>, "chatRoutes"),
     Layer("error", "ALL", <<>>, "Sentry.errorHandler") >>

\* the requests sent to the app: path segments, method, Clerk session state
ReqPaths == {<<>>, <<"debug-sentry">>, <<"api", "inngest">>,
             <<"api", "chat", "token">>, <<"nope">>}
HttpRequests ==
  [method : {"GET", "POST"}, path : ReqPaths, auth : {"signedIn", "signedOut"}]

IsPrefix(a, b) == Len(a) <= Len(b) /\ SubSeq(b, 1, Len(a)) = a

\* Express layer matching: app.use matches a path prefix for any method,
\* app.get the whole path of a GET request
Matches(layer, req) ==
  CASE layer.kind = "use" -> IsPrefix(layer.path, req.path)
    [] layer.kind = "route" -> layer.method = req.method /\ layer.path = req.path
    [] OTHER -> FALSE

\* variant: the greeting without its exclamation mark
HelloHandler_Typo == Response(200, Str("Hello World"))

\* (req, res) => { res.send('Hello World!') }: status defaults to 200
HelloHandler == Response(200, Str("Hello World!"))

\* what answers a request that leaves the stack unanswered (finalhandler)
FinalResponse(err) ==
  IF err THEN Response(500, Str("Internal Server Error"))
  ELSE Response(404, Str("Not Found"))

\* run the stack from layer i until a response is sent or an asynchronous
\* middleware (clerkMiddleware) is awaited; err: an error is being passed
RECURSIVE RunFrom(_, _, _, _, _)
RunFrom(stack, i, req, err, ran) ==
  IF i > Len(stack)
  THEN [pos |-> i, ran |-> ran, res |-> <<FinalResponse(err)>>]
  ELSE LET layer == stack[i] IN
    IF err
    THEN IF layer.kind = "error"
         THEN RunFrom(stack, i + 1, req, err, Append(ran, layer.name))
         ELSE RunFrom(stack, i + 1, req, err, ran)
    ELSE IF ~Matches(layer, req)
    THEN RunFrom(stack, i + 1, req, err, ran)
    ELSE CASE layer.name = "express.json" ->
                RunFrom(stack, i + 1, req, err, Append(ran, layer.name))
           [] layer.name = "clerkMiddleware" ->
                [pos |-> i, ran |-> Append(ran, layer.name), res |-> <<>>]
           [] layer.name = "hello" ->
                [pos |-> i, ran |-> Append(ran, layer.name), res |-> <<HelloHandler>>]
           [] layer.name = "debug-sentry" ->
                RunFrom(stack, i + 1, req, TRUE, Append(ran, layer.name))
           [] OTHER ->
                \* inngest.serve and chatRoutes answer the request themselves
                [pos |-> i, ran |-> Append(ran, layer.name),
                 res |-> <<Response(200, Str(layer.name))>>]

\* ------------------------------------------- server.js: startServer
\* values of ENV.NODE_ENV
NodeEnvs == {Undefined, Str("development"), Str("production")}

\* variant: connectDB() is called without await
StartServer_NoAwait ==
  /\ startPc = "loaded"
  /\ IF nodeEnv # Str("production")
     THEN /\ dbCall' = "pending"
          /\ startLog' = startLog \o <<"connectDB", "app.listen">>
          /\ startPc' = "await_listening"
     ELSE /\ startPc' = "done"
          /\ UNCHANGED <<dbCall, startLog>>
  /\ UNCHANGED <<app, hreq, hpos, hran, hres, nodeEnv, listening, exitCode>>
  /\ UNCHANGED <<frameVars, providerVars, moduleVars, frontVars>>

\* startServer() up to its await: outside production connectDB() is called
StartServer ==
  /\ startPc = "loaded"
  /\ IF nodeEnv # Str("production")
     THEN /\ dbCall' = "pending"
          /\ startLog' = Append(startLog, "connectDB")
          /\ startPc' = "await_connectDB"
     ELSE /\ startPc' = "done"
          /\ UNCHANGED <<dbCall, startLog>>
  /\ UNCHANGED <<app, hreq, hpos, hran, hres, nodeEnv, listening, exitCode>>
  /\ UNCHANGED <<frameVars, providerVars, moduleVars, frontVars>>

\* await connectDB() settles: app.listen(ENV.PORT, callback), or the catch
\* block: console.error("Error starting server:", error); process.exit(1)
ConnectDBResume(outcome) ==
  /\ startPc = "await_connectDB"
  /\ IF outcome = "ok"
     THEN /\ dbCall' = "ok"
          /\ startLog' = Append(startLog, "app.listen")
          /\ startPc' = "await_listening"
          /\ UNCHANGED exitCode
     ELSE /\ dbCall' = "fail"
          /\ startLog' = startLog \o <<"console.error", "process.exit">>
          /\ startPc' = "exited"
          /\ exitCode' = Num(1)
  /\ UNCHANGED <<app, hreq, hpos, hran, hres, nodeEnv, listening>>
  /\ UNCHANGED <<frameVars, providerVars, moduleVars, frontVars>>

\* the port is bound and the listen callback logs the server's address
ListenCallback ==
  /\ startPc = "await_listening"
  /\ listening' = TRUE
  /\ startLog' = Append(startLog, "console.log")
  /\ startPc' = "done"
  /\ UNCHANGED <<app, hreq, hpos, hran, hres, nodeEnv, dbCall, exitCode>>
  /\ UNCHANGED <<frameVars, providerVars, moduleVars, frontVars>>

\* requests reach the app through the bound port, or in production through
\* the platform that imports the exported app; never after process.exit
Serving == exitCode = Null /\ (listening \/ nodeEnv = Str("production"))

\* a request arrives: the layers up to the first awaited middleware run
AppHandle(p, req) ==
  /\ Serving
  /\ hreq[p] = NoRequest
  /\ LET r == RunFrom(app, 1, req, FALSE, <<>>) IN
       /\ hreq' = [hreq EXCEPT ![p] = req]
       /\ hpos' = [hpos EXCEPT ![p] = r.pos]
       /\ hran' = [hran EXCEPT ![p] = r.ran]
       /\ hres' = [hres EXCEPT ![p] = r.res]
  /\ UNCHANGED <<app, startVars, frameVars, providerVars, moduleVars, frontVars>>

\* the awaited middleware called next(): the rest of the stack runs
AppResume(p) ==
  /\ hreq[p] # NoRequest
  /\ hres[p] = <<>>
  /\ LET r == RunFrom(app, hpos[p] + 1, hreq[p], FALSE, hran[p]) IN
       /\ hpos' = [hpos EXCEPT ![p] = r.pos]
       /\ hran' = [hran EXCEPT ![p] = r.ran]
       /\ hres' = [hres EXCEPT ![p] = r.res]
  /\ UNCHANGED <<app, hreq, startVars, frameVars, providerVars, moduleVars, frontVars>>

InitServer ==
  /\ FramesIdle
  /\ ModuleLoaded
  /\ users = {}
  /\ members = {}
  /\ discoverable = {}
  /\ app \in {ServerJs, ServerJsChat}
  /\ hreq = [p \in Procs |-> NoRequest]
  /\ hpos = [p \in Procs |-> 0]
  /\ hran = [p \in Procs |-> <<>>]
  /\ hres = [p \in Procs |-> <<>>]
  /\ nodeEnv \in NodeEnvs
  /\ startPc = "loaded"
  /\ dbCall = "none"
  /\ startLog = <<>>
  /\ listening = FALSE
  /\ exitCode = Null
  /\ FrontIdle

NextServer ==
  \/ StartServer
  \/ \E o \in Outcomes : ConnectDBResume(o)
  \/ ListenCallback
  \/ \E p \in Procs, r \in HttpRequests : AppHandle(p, r)
  \/ \E p \in Procs : AppResume(p)

SpecServer == InitServer /\ [][NextServer]_vars

\* ----------------------------------------------- main.jsx: bootstrap
MaxHops == 3           \* redirects followed before the model stops counting

\* values import.meta.env.VITE_CLERK_PUBLISHABLE_KEY can have
EnvKeys == {Undefined, Null, Str(""), Str("pk_test_123"), Str("pk_live_987")}

\* variant: the check only tests for undefined
Truthy_OnlyUndefined(v) == v # Undefined

\* JavaScript truthiness, as `!PUBLISHABLE_KEY` uses it
Truthy(v) ==
  CASE v.t = "str" -> v.s # ""
    [] v.t = "num" -> v.n # 0
    [] OTHER -> FALSE

backendQuiet == UNCHANGED <<frameVars, providerVars, moduleVars, serverVars>>

\* URLs are sequences of tokens: "/" separators, segments, "?" and "#"
RootUrl == <<"/">>
AuthUrl == <<"/", "auth">>
Urls == {RootUrl, AuthUrl,
         <<"/", "?", "redirect=dashboard">>,
         <<"/", "#", "section">>,
         <<"/", "unknown-route">>,
         <<"/", "a", "/", "b", "/", "c", "/", "d", "/", "e">>}

\* the part of a URL before its query string and hash fragment
RECURSIVE Pathname(_)
Pathname(url) ==
  IF url = <<>> \/ Head(url) \in {"?", "#"} THEN <<>>
  ELSE <<Head(url)>> \o Pathname(Tail(url))

\* route elements
PageEl(name) == [kind |-> "page", name |-> name, to |-> <<>>]
NavigateEl(to) == [kind |-> "navigate", name |-> "Navigate", to |-> to]
NoMatch == [kind |-> "none", name |-> "none", to |-> <<>>]
Route(path, element) == [path |-> path, element |-> element]
Splat == <<"*">>

\* variant: the root route of the signed-in tree sends to /auth
SignedInRoutes_Loop ==
  << Route(RootUrl, NavigateEl(AuthUrl)), Route(AuthUrl, NavigateEl(RootUrl)) >>

\* App.jsx, inside <SignedIn>: "/" -> HomePage, "/auth" -> Navigate to "/"
SignedInRoutes ==
  << Route(RootUrl, PageEl("HomePage")), Route(AuthUrl, NavigateEl(RootUrl)) >>

\* variant: the signed-out tree also serves the home page at "/"
SignedOutRoutes_HomeOpen ==
  << Route(RootUrl, PageEl("HomePage")), Route(AuthUrl, PageEl("AuthPage")),
     Route(Splat, NavigateEl(AuthUrl)) >>

\* App.jsx, inside <SignedOut>: "/auth" -> AuthPage, "*" -> Navigate to "/auth"
SignedOutRoutes ==
  << Route(AuthUrl, PageEl("AuthPage")), Route(Splat, NavigateEl(AuthUrl)) >>

\* <Routes>: the route whose path equals the pathname, else the splat route
MatchRoute(routes, pathname) ==
  LET exact == {i \in 1..Len(routes) : routes[i].path = pathname}
      splat == {i \in 1..Len(routes) : routes[i].path = Splat}
  IN IF exact # {} THEN routes[CHOOSE i \in exact : TRUE].element
     ELSE IF splat # {} THEN routes[CHOOSE i \in splat : TRUE].element
     ELSE NoMatch

\* what <App/> renders for a session state and a URL
AppElement(in, url) ==
  MatchRoute(IF in THEN SignedInRoutes ELSE SignedOutRoutes, Pathname(url))

\* the screen and the pending redirect after React rendered <App/>
Rendered(in, url) ==
  LET e == AppElement(in, url) IN
  /\ page' = IF e.kind = "page" THEN e.name ELSE "none"
  /\ pending' = IF e.kind = "navigate" THEN e.to ELSE <<>>

Step(name) == bootLog' = Append(bootLog, name)

\* variant: the key is read but checked only after the app was rendered
ReadKey_NoCheck ==
  /\ bootPc = "start"
  /\ Step("env_check")
  /\ bootPc' = "sentry"
  /\ UNCHANGED <<env, rootEl, bootError, signedIn, location, entered, page, pending, hops>>
  /\ backendQuiet

\* const PUBLISHABLE_KEY = import.meta.env.VITE_CLERK_PUBLISHABLE_KEY
ReadKey ==
  /\ bootPc = "start"
  /\ Step("env_check")
  /\ bootPc' = "validate"
  /\ UNCHANGED <<env, rootEl, bootError, signedIn, location, entered, page, pending, hops>>
  /\ backendQuiet

\* if (!PUBLISHABLE_KEY) { throw new Error('Missing Publishable Key') }
ValidateKey ==
  /\ bootPc = "validate"
  /\ IF Truthy(env)
     THEN /\ Step("validation")
          /\ bootPc' = "sentry"
          /\ UNCHANGED bootError
     ELSE /\ bootError' = Err("Missing Publishable Key")
          /\ bootPc' = "crashed"
          /\ UNCHANGED bootLog
  /\ UNCHANGED <<env, rootEl, signedIn, location, entered, page, pending, hops>>
  /\ backendQuiet

\* Sentry.init({...})
SentryInit ==
  /\ bootPc = "sentry"
  /\ Step("sentry_init")
  /\ bootPc' = "select"
  /\ UNCHANGED <<env, rootEl, bootError, signedIn, location, entered, page, pending, hops>>
  /\ backendQuiet

\* document.getElementById('root')
SelectRoot ==
  /\ bootPc = "select"
  /\ Step("root_selection")
  /\ bootPc' = "create"
  /\ UNCHANGED <<env, rootEl, bootError, signedIn, location, entered, page, pending, hops>>
  /\ backendQuiet

\* createRoot(element): React refuses a null container
CreateRoot ==
  /\ bootPc = "create"
  /\ IF rootEl
     THEN /\ Step("root_creation")
          /\ bootPc' = "render"
          /\ UNCHANGED bootError
     ELSE /\ bootError' = Err("Target container is not a DOM element.")
          /\ bootPc' = "crashed"
          /\ UNCHANGED bootLog
  /\ UNCHANGED <<env, rootEl, signedIn, location, entered, page, pending, hops>>
  /\ backendQuiet

\* .render(<StrictMode>...<App/>...</StrictMode>): the first render of App
RenderApp ==
  /\ bootPc = "render"
  /\ Step("render")
  /\ bootPc' = "mounted"
  /\ Rendered(signedIn, location)
  /\ UNCHANGED <<env, rootEl, bootError, signedIn, location, entered, hops>>
  /\ backendQuiet

\* ------------------------------------------------------ App.jsx: routing
\* the user opens a URL (address bar or link)
NavigateTo(url) ==
  /\ bootPc = "mounted"
  /\ location' = url
  /\ entered' = url
  /\ hops' = 0
  /\ Rendered(signedIn, url)
  /\ UNCHANGED <<env, rootEl, bootPc, bootLog, bootError, signedIn>>
  /\ backendQuiet

\* the effect of a rendered <Navigate to=... replace/>
FollowNavigate ==
  /\ bootPc = "mounted"
  /\ pending # <<>>
  /\ hops < MaxHops
  /\ location' = pending
  /\ hops' = hops + 1
  /\ Rendered(signedIn, pending)
  /\ UNCHANGED <<env, rootEl, bootPc, bootLog, bootError, signedIn, entered>>
  /\ backendQuiet

\* Clerk's session starts or ends; <SignedIn>/<SignedOut> re-render
SetSession(in) ==
  /\ bootPc = "mounted"
  /\ signedIn # in
  /\ signedIn' = in
  /\ hops' = 0
  /\ Rendered(in, location)
  /\ UNCHANGED <<env, rootEl, bootPc, bootLog, bootError, location, entered>>
  /\ backendQuiet

\* the bundle is loaded in a browser: any key, document, session and URL
InitFrontend ==
  /\ FramesIdle
  /\ ModuleLoaded
  /\ users = {}
  /\ members = {}
  /\ discoverable = {}
  /\ ServerIdle
  /\ env \in EnvKeys
  /\ rootEl \in BOOLEAN
  /\ bootPc = "start"
  /\ bootLog = <<>>
  /\ bootError = Undefined
  /\ signedIn \in BOOLEAN
  /\ location \in Urls
  /\ entered = location
  /\ page = "none"
  /\ pending = <<>>
  /\ hops = 0

NextFrontend ==
  \/ ReadKey
  \/ ValidateKey
  \/ SentryInit
  \/ SelectRoot
  \/ CreateRoot
  \/ RenderApp
  \/ \E u \in Urls : NavigateTo(u)
  \/ FollowNavigate
  \/ \E b \in BOOLEAN : SetSession(b)

SpecFrontend == InitFrontend /\ [][NextFrontend]_vars

\* ======================================================== properties
\* frame p is a finished token request made with a non-empty string identity
ValidTokenRequestDone(p) ==
  /\ op[p] = "getStreamToken"
  /\ pc[p] = "done"
  /\ arg[p].auth = "ok"
  /\ arg[p].userId.t = "str"
  /\ arg[p].userId.s # ""

\* the indices of the frame's provider calls that have not settled
InFlight(p) == {i \in 1..Len(calls[p]) : calls[p][i].status = "pending"}

\* the indices of the frame's calls of provider function fn
CallsOf(p, fn) == {i \in 1..Len(calls[p]) : calls[p][i].fn = fn}

\* C1: a token request with a non-empty string identity whose createToken
\* call throws is answered with status 500 and the fixed message body.
C1_ThrowGives500 ==
  \A p \in Procs :
    (ValidTokenRequestDone(p) /\ calls[p] # <<>> /\ calls[p][1].status = "fail")
      => res[p] = <<Response(500, [message |-> "Error generating stream token"])>>

\* C2: a token request with a non-empty string identity whose createToken
\* call succeeds is answered with status 200 and body {token: t}, t being
\* the value createToken returned for exactly that identity string.
C2_SuccessGives200Token ==
  \A p \in Procs :
    (ValidTokenRequestDone(p) /\ calls[p] # <<>> /\ calls[p][1].status = "ok")
      => /\ Len(calls[p]) = 1
         /\ calls[p][1].fn = "createToken"
         /\ calls[p][1].arg = arg[p].userId.s
         /\ res[p] = <<Response(200, [token |-> calls[p][1].value])>>
         /\ res[p][1].body.token = ProviderToken(arg[p].userId.s)

C2_Witness ==
  \E p \in Procs :
    /\ ValidTokenRequestDone(p)
    /\ arg[p].userId = Str("user_123")
    /\ calls[p] # <<>> /\ calls[p][1].status = "ok"
    /\ res[p] = <<Response(200, [token |-> Str("jwt.user_123")])>>

\* C3: upsertStreamUser and deleteStreamUser never reject: the promise is
\* pending or fulfilled, fulfilled once the function is done, and when the
\* provider call failed the error was logged with console.error and the
\* caller gets undefined.
SyncMsg(p) ==
  IF op[p] = "upsertStreamUser" THEN "Error upserting Stream user:"
  ELSE "Error deleting Stream user:"

C3_SyncNeverRejects ==
  \A p \in Procs :
    op[p] \in {"upsertStreamUser", "deleteStreamUser"}
      => /\ ret[p].state \in {"pending", "fulfilled"}
         /\ pc[p] = "done" => ret[p].state = "fulfilled"
         /\ (pc[p] = "done" /\ calls[p][1].status = "fail")
              => /\ ret[p] = Fulfilled(Undefined)
                 /\ logs[p] = <<LogLine("error", SyncMsg(p), calls[p][1].value)>>

C3_Witness ==
  \E p, q \in Procs :
    /\ op[p] = "upsertStreamUser" /\ pc[p] = "done" /\ calls[p][1].status = "fail"
    /\ op[q] = "deleteStreamUser" /\ pc[q] = "done" /\ calls[q][1].status = "fail"
    /\ ret[p].state = "fulfilled" /\ ret[q].state = "fulfilled"

\* C4: genrateStreamToken always returns (never raises); it returns null
\* when the identity has no toString or createToken threw, and otherwise the
\* token createToken returned for the identity's string form.
C4_NullOnFailure ==
  \A p \in Procs :
    op[p] = "genrateStreamToken"
      => /\ ret[p].state = "returned"
         /\ IF arg[p] \in {Null, Undefined}
            THEN ret[p].value = Null /\ calls[p] = <<>>
            ELSE /\ Len(calls[p]) = 1
                 /\ calls[p][1].fn = "createToken"
                 /\ arg[p].t = "str" => calls[p][1].arg = arg[p].s
                 /\ arg[p].t = "num" => calls[p][1].arg = NumToStr(arg[p].n)
                 /\ IF calls[p][1].status = "fail"
                    THEN ret[p].value = Null
                    ELSE ret[p].value = calls[p][1].value

C4_Witness ==
  \E p, q \in Procs :
    /\ op[p] = "genrateStreamToken" /\ arg[p] = Null /\ ret[p] = Returned(Null)
    /\ op[q] = "genrateStreamToken" /\ arg[q].t = "num"
    /\ calls[q][1].status = "ok" /\ ret[q].value = calls[q][1].value

\* the channel list the frame's queryChannels call returned
Returned_Channels(p) == calls[p][1].value

\* C5: an enrollment run in which every call succeeded issued, after the
\* query, exactly one addMembers call per returned channel, in the order
\* returned, each with the member list [newUserId].
C5_OneCallPerChannelInOrder ==
  \A p \in Procs :
    (op[p] = "addUserToPublicChannels" /\ pc[p] = "done" /\ ret[p].state = "fulfilled")
      => /\ calls[p][1].fn = "queryChannels"
         /\ Len(calls[p]) = 1 + Len(Returned_Channels(p))
         /\ \A i \in 1..Len(Returned_Channels(p)) :
              /\ calls[p][i + 1].fn = "addMembers"
              /\ calls[p][i + 1].arg = [channel |-> Returned_Channels(p)[i],
                                        members |-> <<arg[p]>>]

C5_Witness ==
  \E p \in Procs :
    /\ op[p] = "addUserToPublicChannels" /\ pc[p] = "done" /\ ret[p].state = "fulfilled"
    /\ Len(Returned_Channels(p)) >= 2
    /\ Len(calls[p]) = 1 + Len(Returned_Channels(p))

\* C6: within one enrollment run at most one provider call is in flight,
\* only the most recently issued call can be unsettled, and addMembers
\* calls exist only once the queryChannels call has completed successfully.
C6_Sequential ==
  \A p \in Procs :
    op[p] = "addUserToPublicChannels"
      => /\ Cardinality(InFlight(p)) <= 1
         /\ \A i \in 1..(Len(calls[p]) - 1) : calls[p][i].status = "ok"
         /\ CallsOf(p, "addMembers") # {} => calls[p][1].status = "ok"

C6_Witness ==
  \E p \in Procs :
    /\ op[p] = "addUserToPublicChannels"
    /\ Len(calls[p]) = 3
    /\ calls[p][2].status = "ok"
    /\ calls[p][3].fn = "addMembers" /\ calls[p][3].status = "pending"

\* C7: addUserToPublicChannels never rejects: when the query or an
\* addMembers call fails the function still returns normally.
C7_EnrollSwallowsErrors ==
  \A p \in Procs :
    op[p] = "addUserToPublicChannels" => ret[p].state # "rejected"

\* C8: a token request in which the identity lookup, the stringification or
\* the provider call failed is answered with the one generic 500 response.
TokenRequestFailed(p) ==
  \/ AuthThrows(arg[p])
  \/ arg[p].userId \in {Null, Undefined}
  \/ (calls[p] # <<>> /\ calls[p][1].status = "fail")

C8_AnyFailureGives500 ==
  \A p \in Procs :
    (op[p] = "getStreamToken" /\ pc[p] = "done" /\ TokenRequestFailed(p))
      => res[p] = <<Response(500, [message |-> "Error generating stream token"])>>

\* C9: no retries: a token request or a direct token generation issues at
\* most one createToken call, an upsert at most one upsertUser call, a
\* delete at most one deleteUser call, an enrollment run at most one
\* queryChannels call and at most one addMembers call per channel; no frame
\* issues any other provider call.
AllowedCalls(o) ==
  CASE o \in {"getStreamToken", "genrateStreamToken"} -> {"createToken"}
    [] o = "upsertStreamUser" -> {"upsertUser"}
    [] o = "deleteStreamUser" -> {"deleteUser"}
    [] o = "addUserToPublicChannels" -> {"queryChannels", "addMembers"}
    [] OTHER -> {}

C9_NoRetry ==
  \A p \in Procs :
    /\ \A i \in 1..Len(calls[p]) : calls[p][i].fn \in AllowedCalls(op[p])
    /\ \A fn \in {"createToken", "upsertUser", "deleteUser", "queryChannels"} :
         Cardinality(CallsOf(p, fn)) <= 1
    /\ \A i, j \in CallsOf(p, "addMembers") :
         calls[p][i].arg.channel = calls[p][j].arg.channel => i = j

C9_Witness ==
  \E p, q \in Procs :
    /\ op[p] = "upsertStreamUser" /\ pc[p] = "done" /\ calls[p][1].status = "fail"
    /\ op[q] = "addUserToPublicChannels" /\ pc[q] = "done"
    /\ Len(calls[q]) >= 3 /\ calls[q][Len(calls[q])].status = "fail"

\* C10: when the addMembers call for the k-th channel failed, that call is
\* the last provider call of the run (none for channels k+1..N, no rollback
\* call), the run is over, and the user is still a member of channels
\* 1..k-1.
FailedAdd(p) ==
  {i \in CallsOf(p, "addMembers") : calls[p][i].status = "fail"}

C10_StopsAtFirstFailure ==
  \A p \in Procs :
    op[p] = "addUserToPublicChannels" =>
      \A i \in FailedAdd(p) :
        /\ i = Len(calls[p])
        /\ pc[p] = "done"
        /\ \A j \in 1..Len(calls[p]) : calls[p][j].fn \in {"queryChannels", "addMembers"}
        /\ \A j \in 2..(i - 1) : <<Returned_Channels(p)[j - 1], arg[p]>> \in members

C10_Witness ==
  \E p \in Procs :
    /\ op[p] = "addUserToPublicChannels"
    /\ FailedAdd(p) = {3}
    /\ Len(Returned_Channels(p)) = 3
    /\ <<Returned_Channels(p)[1], arg[p]>> \in members
    /\ pc[p] = "done"

\* C11: every GET request for '/' that has been answered got exactly one
\* response, status 200 with body "Hello World!", whatever its session
\* state and whatever the other requests were.
C11_RootSaysHello ==
  \A p \in Procs :
    (hreq[p].method = "GET" /\ hreq[p].path = <<>> /\ hres[p] # <<>>)
      => hres[p] = <<Response(200, Str("Hello World!"))>>

C11_Witness ==
  \E p, q \in Procs :
    /\ hreq[q].path = <<"debug-sentry">> /\ hres[q] # <<>>
    /\ hreq[p] = [method |-> "GET", path |-> <<>>, auth |-> "signedOut"]
    /\ hres[p] = <<Response(200, Str("Hello World!"))>>

\* the finished token requests
TokenDone == {p \in Procs : op[p] = "getStreamToken" /\ pc[p] = "done"}

\* C12: the response to a token request is determined by that request
\* alone: a token it carries is the one its own createToken call returned
\* for its own identity, a null token comes from its own failure, and two
\* requests with the same identity and the same provider answer get the
\* same response whatever else ran in between.
C12_RequestsIndependent ==
  \A p \in TokenDone :
    /\ \A i \in 1..Len(res[p]) :
         res[p][i].status = 200 =>
           IF res[p][i].body.token = Null
           THEN TokenRequestFailed(p)
           ELSE /\ calls[p] # <<>>
                /\ calls[p][1].status = "ok"
                /\ calls[p][1].arg = toString(arg[p].userId)
                /\ res[p][i].body.token = calls[p][1].value
    /\ \A q \in TokenDone :
         (arg[q] = arg[p] /\ calls[q] = calls[p]) => res[q] = res[p]

C12_Witness ==
  \E p, q \in Procs :
    /\ p # q
    /\ p \in TokenDone /\ arg[p].auth = "ok" /\ arg[p].userId = Str("user_123")
    /\ res[p] = <<Response(200, [token |-> Str("jwt.user_123")])>>
    /\ op[q] = "getStreamToken" /\ pc[q] = "await_token"
    /\ arg[q].userId = Str("u2") /\ token[q] = Str("jwt.u2")

\* C13: there is exactly one StreamChat client instance, the one bound to
\* streamClient when stream.js was loaded, and every provider call of every
\* frame went through it.
C13_OneClient ==
  /\ instances = {streamClient}
  /\ \A p \in Procs : \A i \in 1..Len(calls[p]) : calls[p][i].client = streamClient

C13_Witness ==
  \E p, q \in Procs :
    /\ op[p] = "addUserToPublicChannels" /\ Len(calls[p]) >= 3
    /\ op[q] \in {"getStreamToken", "genrateStreamToken"} /\ calls[q] # <<>>

\* C14: a token request issues nothing but its one createToken call, and
\* no step of a token request changes the provider's user directory,
\* channel memberships or channel flags.
C14_TokenNoSideEffect ==
  /\ [](\A p \in Procs :
          op[p] = "getStreamToken" =>
            /\ Len(calls[p]) <= 1
            /\ \A i \in 1..Len(calls[p]) : calls[p][i].fn = "createToken")
  /\ [][\A p \in Procs :
          (op'[p] = "getStreamToken" /\ pc'[p] # pc[p])
            => UNCHANGED <<users, members, discoverable>>]_vars

C14_Witness ==
  \E p, q \in Procs :
    /\ p \in TokenDone /\ calls[p] # <<>> /\ calls[p][1].status = "ok"
    /\ op[q] = "upsertStreamUser" /\ pc[q] = "done"
    /\ users = {"user_123"}
    /\ arg[p].userId = Str("u2")

\* C19: no 200 response of the token endpoint carries a null token.
C19_NoNullToken200 ==
  \A p \in Procs :
    op[p] = "getStreamToken" =>
      \A i \in 1..Len(res[p]) :
        res[p][i].status = 200 => res[p][i].body.token # Null

\* C20: a finished getStreamToken invocation has sent exactly one response,
\* with status 200 or 500, and an unfinished one has sent none yet.
C20_ExactlyOneResponse ==
  \A p \in Procs :
    op[p] = "getStreamToken" =>
      IF pc[p] = "done"
      THEN Len(res[p]) = 1 /\ res[p][1].status \in {200, 500}
      ELSE res[p] = <<>>

C20_Witness ==
  \E p, q \in Procs :
    /\ p \in TokenDone /\ AuthThrows(arg[p]) /\ res[p] = <<ErrorResponse>>
    /\ q \in TokenDone /\ ~AuthThrows(arg[q]) /\ res[q] = <<TokenResponse(Null)>>

Has(log, name) == \E i \in 1..Len(log) : log[i] = name

\* C15: with the publishable key undefined, null or empty the bootstrap
\* stops at the key check with Error('Missing Publishable Key'), creates no
\* React root and renders nothing; with a non-empty string key the key
\* check passes and never raises that error.
C15_FailFastOnMissingKey ==
  /\ (env \in {Undefined, Null, Str("")} /\ bootPc \notin {"start", "validate"})
       => /\ bootPc = "crashed"
          /\ bootError = Err("Missing Publishable Key")
          /\ ~Has(bootLog, "root_creation")
          /\ ~Has(bootLog, "render")
          /\ page = "none"
  /\ (env.t = "str" /\ env.s # "")
       => /\ bootError # Err("Missing Publishable Key")
          /\ bootPc \notin {"start", "validate"} => Has(bootLog, "validation")

C15_Witness ==
  /\ env = Null
  /\ bootPc = "crashed"
  /\ bootError = Err("Missing Publishable Key")
  /\ bootLog = <<"env_check">>

\* the five bootstrap steps the claim orders
BootOrder == <<"env_check", "validation", "root_selection", "root_creation", "render">>

RECURSIVE OnlyOrdered(_)
OnlyOrdered(log) ==
  IF log = <<>> THEN <<>>
  ELSE (IF Has(BootOrder, Head(log)) THEN <<Head(log)>> ELSE <<>>) \o OnlyOrdered(Tail(log))

\* C16: the bootstrap steps performed so far are always an initial part of
\* read key, validate, select root element, create root, render; a render
\* is preceded by a passed validation of a truthy key.
C16_BootOrder ==
  /\ bootPc # "unloaded" =>
       OnlyOrdered(bootLog) = SubSeq(BootOrder, 1, Len(OnlyOrdered(bootLog)))
  /\ Has(bootLog, "render") => (Has(bootLog, "validation") /\ env \notin {Undefined, Null, Str("")})

C16_Witness ==
  /\ bootPc = "mounted"
  /\ OnlyOrdered(bootLog) = BootOrder

\* C17: signed out, the home page is never on screen; at /auth the auth
\* page is shown; from any other URL the app ends, after one redirect, at
\* /auth showing the auth page.
C17_SignedOutRouting ==
  (bootPc = "mounted" /\ ~signedIn) =>
    /\ page # "HomePage"
    /\ Pathname(location) = AuthUrl => (page = "AuthPage" /\ pending = <<>>)
    /\ Pathname(location) # AuthUrl => pending = AuthUrl
    /\ pending = <<>> => (location = AuthUrl /\ page = "AuthPage")
    /\ hops <= 1

C17_Witness ==
  /\ bootPc = "mounted" /\ ~signedIn
  /\ entered = <<"/", "a", "/", "b", "/", "c", "/", "d", "/", "e">>
  /\ location = AuthUrl /\ page = "AuthPage" /\ hops = 1

\* C18: signed in, "/" (with or without query string or hash) shows the
\* home page, /auth is redirected to "/" where the home page is shown, and
\* no navigation is followed by more than one redirect, after which no
\* further redirect is pending.
C18_SignedInRouting ==
  (bootPc = "mounted" /\ signedIn) =>
    /\ Pathname(location) = RootUrl => (page = "HomePage" /\ pending = <<>>)
    /\ Pathname(location) = AuthUrl => (page = "none" /\ pending = RootUrl)
    /\ hops <= 1
    /\ hops = 1 => pending = <<>>

C18_Witness ==
  /\ bootPc = "mounted" /\ signedIn
  /\ entered = AuthUrl
  /\ location = RootUrl /\ page = "HomePage" /\ hops = 1 /\ pending = <<>>

\* C21: a token request whose identity lookup raised (req.auth is absent
\* or req.auth() throws) made no provider call at all, is over, and was
\* answered with exactly the 500 response carrying the fixed message.
C21_AuthFailureGives500 ==
  \A p \in Procs :
    (op[p] = "getStreamToken" /\ arg[p].auth \in {"missing", "throws"})
      => /\ calls[p] = <<>>
         /\ pc[p] = "done"
         /\ token[p] = Undefined
         /\ res[p] = <<Response(500, [message |-> "Error generating stream token"])>>

C21_Witness ==
  \E p, q \in Procs :
    /\ op[p] = "getStreamToken" /\ arg[p].auth = "missing"
    /\ op[q] = "getStreamToken" /\ arg[q].auth = "throws"
    /\ res[p] = <<ErrorResponse>> /\ res[q] = <<ErrorResponse>>
    /\ calls[p] = <<>> /\ calls[q] = <<>>

\* C22: whatever upserts and deletes ran before or beside it, a token
\* request with a non-empty string identity asks the provider exactly once,
\* and when that call succeeds it is answered 200 with the provider's token
\* for the identity, whether or not the identity is in the user directory.
C22_NoLifecycleCoordination ==
  \A p \in Procs :
    (op[p] = "getStreamToken" /\ arg[p].auth = "ok" /\ arg[p].userId.t = "str")
      => /\ Len(calls[p]) = 1
         /\ calls[p][1].fn = "createToken"
         /\ (pc[p] = "done" /\ calls[p][1].status = "ok")
              => res[p] = <<Response(200, [token |-> ProviderToken(arg[p].userId.s)])>>

C22_Witness ==
  \E p, q \in Procs :
    /\ op[q] = "deleteStreamUser" /\ pc[q] = "done" /\ calls[q][1].status = "ok"
    /\ arg[q] = Str("user_123")
    /\ "user_123" \notin users
    /\ op[p] = "getStreamToken" /\ pc[p] = "done" /\ arg[p].auth = "ok"
    /\ arg[p].userId = Str("user_123")
    /\ res[p] = <<TokenResponse(Str("jwt.user_123"))>>

\* the enrollment runs, and those that returned normally
Enrolling == {p \in Procs : op[p] = "addUserToPublicChannels"}
Enrolled == {p \in Enrolling : pc[p] = "done" /\ ret[p].state = "fulfilled"}

Range(seq) == {seq[i] : i \in 1..Len(seq)}

\* the channels user u belongs to in membership set ms
ChannelsOf(ms, u) == {c \in ChannelIds : <<c, u>> \in ms}

\* C23: a step of an enrollment run for user u removes no membership and
\* adds at most memberships of u in channels its query returned, all of
\* them discoverable; it changes neither flags nor the user directory.  So
\* a channel that is not discoverable keeps exactly the members it had, and
\* a user for whom no run was started keeps exactly the channels they had.
C23_EnrollFrame ==
  /\ [][\A p \in Procs :
          (op'[p] = "addUserToPublicChannels" /\ calls'[p] # calls[p])
            => /\ members \subseteq members'
               /\ \A m \in members' \ members :
                    /\ m[2] = arg[p]
                    /\ m[1] \in Range(publicChannels[p])
                    /\ m[1] \in discoverable
               /\ UNCHANGED <<users, discoverable>>]_vars
  /\ [](\A c \in ChannelIds \ discoverable :
          {m \in members : m[1] = c} = {m \in InitialMembers : m[1] = c})
  /\ [](\A u \in MemberIds :
          (\A p \in Enrolling : arg[p] # u)
            => ChannelsOf(members, u) = ChannelsOf(InitialMembers, u))

C23_Witness ==
  \E p \in Enrolled :
    /\ arg[p] = Str("u2")
    /\ discoverable = ChannelIds \ {1}
    /\ members = InitialMembers \cup {<<c, Str("u2")>> : c \in discoverable}
    /\ <<1, Str("user_123")>> \in members
    /\ <<1, Str("u2")>> \notin members

\* C24: every run that returned normally issued one addMembers call per
\* channel of its query result, also for channels the user was already a
\* member of, so two such runs for one user issued 2N calls; and once any
\* run for the user returned normally the user's channels are the ones held
\* before plus the N returned ones, however many runs there were.
C24_EnrollIdempotent ==
  \A p \in Enrolled :
    /\ Cardinality(CallsOf(p, "addMembers")) = Len(Returned_Channels(p))
    /\ \A c \in Range(Returned_Channels(p)) :
         \E i \in CallsOf(p, "addMembers") : calls[p][i].arg.channel = c
    /\ ChannelsOf(members, arg[p])
         \subseteq ChannelsOf(InitialMembers, arg[p]) \cup discoverable
    /\ Range(Returned_Channels(p)) \subseteq ChannelsOf(members, arg[p])
    /\ \A q \in Enrolled :
         (q # p /\ arg[q] = arg[p] /\ Returned_Channels(q) = Returned_Channels(p))
           => /\ Cardinality(CallsOf(p, "addMembers")) + Cardinality(CallsOf(q, "addMembers"))
                   = 2 * Len(Returned_Channels(p))
              /\ ChannelsOf(members, arg[p])
                   = ChannelsOf(InitialMembers, arg[p]) \cup Range(Returned_Channels(p))

C24_Witness ==
  \E p, q \in Enrolled :
    /\ p # q
    /\ arg[p] = Str("user_123") /\ arg[q] = Str("user_123")
    /\ Len(Returned_Channels(p)) = MaxChannels
    /\ Len(calls[p]) = 1 + MaxChannels /\ Len(calls[q]) = 1 + MaxChannels
    /\ ChannelsOf(members, Str("user_123")) = ChannelIds

\* C25: every enrollment run ends, and a run none of whose provider calls
\* failed ends by returning normally with the user a member of every
\* channel the query returned.
C25_EnrollTerminates ==
  /\ \A p \in Procs : (op[p] = "addUserToPublicChannels") ~> (pc[p] = "done")
  /\ [](\A p \in Enrolling :
          (pc[p] = "done" /\ \A i \in 1..Len(calls[p]) : calls[p][i].status = "ok")
            => /\ ret[p] = Fulfilled(Undefined)
               /\ \A c \in Range(Returned_Channels(p)) : <<c, arg[p]>> \in members)

C25_Witness ==
  \E p \in Enrolled :
    /\ Len(Returned_Channels(p)) = MaxChannels
    /\ arg[p] = Str("u2")
    /\ \A c \in ChannelIds : <<c, Str("u2")>> \in members

\* C26: in every interleaving each run's addMembers calls follow the order
\* of its own query result, are made for its own user, and at most one of
\* them is unsettled; two runs for different users that both returned
\* normally leave each user a member of every channel of their own result.
C26_InterleavedRuns ==
  /\ \A p \in Enrolling :
       /\ Cardinality(InFlight(p)) <= 1
       /\ \A i \in CallsOf(p, "addMembers") :
            /\ i - 1 <= Len(publicChannels[p])
            /\ calls[p][i].arg = [channel |-> publicChannels[p][i - 1],
                                  members |-> <<arg[p]>>]
  /\ \A p, q \in Enrolled :
       arg[p] # arg[q]
         => /\ Range(Returned_Channels(p)) \subseteq ChannelsOf(members, arg[p])
            /\ Range(Returned_Channels(q)) \subseteq ChannelsOf(members, arg[q])
            /\ Len(calls[p]) = 1 + Len(Returned_Channels(p))
            /\ Len(calls[q]) = 1 + Len(Returned_Channels(q))

C26_Witness ==
  \E p, q \in Enrolled :
    /\ arg[p] = Str("user_123") /\ arg[q] = Str("u2")
    /\ Len(Returned_Channels(p)) >= 2
    /\ Range(Returned_Channels(p)) \subseteq ChannelsOf(members, arg[p])
    /\ Range(Returned_Channels(q)) \subseteq ChannelsOf(members, arg[q])

\* C27: whatever happens to the flags after the query returned, the
\* addMembers calls of a run are for the channels of its query result, in
\* that order and nothing else, and a run that returned normally made the
\* call for every one of them.
C27_WorksOnSnapshot ==
  \A p \in Enrolling :
    calls[p][1].status = "ok" =>
      /\ publicChannels[p] = Returned_Channels(p)
      /\ Len(calls[p]) <= 1 + Len(Returned_Channels(p))
      /\ \A i \in 2..Len(calls[p]) :
           /\ calls[p][i].fn = "addMembers"
           /\ calls[p][i].arg.channel = Returned_Channels(p)[i - 1]
      /\ p \in Enrolled => Len(calls[p]) = 1 + Len(Returned_Channels(p))

C27_Witness ==
  \E p \in Enrolled :
    /\ Returned_Channels(p) = [i \in 1..(MaxChannels - 1) |-> i]
    /\ discoverable = ChannelIds \ {MaxChannels - 1}
    /\ <<MaxChannels - 1, arg[p]>> \in members
    /\ <<MaxChannels, arg[p]>> \notin members
    /\ \A i \in CallsOf(p, "addMembers") : calls[p][i].arg.channel # MaxChannels

\* C28: app.listen is called, and the port bound, only outside production
\* and only after connectDB() completed successfully; when connectDB()
\* failed the error was logged, the process exited with code 1, and neither
\* app.listen nor its callback ever ran.
C28_ListenAfterConnect ==
  /\ (listening \/ Has(startLog, "app.listen"))
       => /\ dbCall = "ok"
          /\ nodeEnv # Str("production")
          /\ exitCode = Null
          /\ SubSeq(startLog, 1, 2) = <<"connectDB", "app.listen">>
  /\ dbCall = "fail"
       => /\ startLog = <<"connectDB", "console.error", "process.exit">>
          /\ exitCode = Num(1)
          /\ ~listening
          /\ startPc = "exited"
  /\ exitCode # Null => (exitCode = Num(1) /\ dbCall = "fail")

C28_Witness ==
  /\ nodeEnv = Str("development")
  /\ listening
  /\ dbCall = "ok"
  /\ startLog = <<"connectDB", "app.listen", "console.log">>
  /\ \E p \in Procs : hres[p] # <<>>

\* positions of the layers of a stack with a given property
LayersWhere(stack, Test(_)) == {i \in 1..Len(stack) : Test(stack[i])}
IsParser(l) == l.name = "express.json"
IsAuth(l) == l.name = "clerkMiddleware"
IsRouteLayer(l) == l.kind = "route" \/ (l.kind = "use" /\ l.path # <<>>)
IsErrorLayer(l) == l.kind = "error"

\* C29: in the app's stack the JSON parser and clerkMiddleware come before
\* every route and the error handler after every route; and for every
\* request, a route handler that ran was preceded by clerkMiddleware and
\* the JSON parser, the error handler only ran after a route handler.
C29_MiddlewareOrder ==
  /\ LayersWhere(app, IsParser) # {} /\ LayersWhere(app, IsAuth) # {}
  /\ \A r \in LayersWhere(app, IsRouteLayer) :
       /\ \A i \in LayersWhere(app, IsParser) \cup LayersWhere(app, IsAuth) : i < r
       /\ \A e \in LayersWhere(app, IsErrorLayer) : r < e
  /\ \A p \in Procs : \A k \in 1..Len(hran[p]) :
       /\ hran[p][k] \notin {"express.json", "clerkMiddleware", "Sentry.errorHandler"}
            => /\ \E j \in 1..(k - 1) : hran[p][j] = "clerkMiddleware"
               /\ \E j \in 1..(k - 1) : hran[p][j] = "express.json"
       /\ hran[p][k] = "Sentry.errorHandler"
            => \E j \in 1..(k - 1) : hran[p][j] = "debug-sentry"

C29_Witness ==
  \E p, q \in Procs :
    /\ app = ServerJsChat
    /\ hreq[p].path = <<"api", "chat", "token">>
    /\ hran[p] = <<"express.json", "clerkMiddleware", "chatRoutes">>
    /\ hran[q] = <<"express.json", "clerkMiddleware", "debug-sentry", "Sentry.errorHandler">>

====
